---- MODULE Spec2Model ----
(***************************************************************************)
(* The probing engine of cwisstable (cwisstable/probe.h): the probe        *)
(* sequence CWISS_probe_seq and the search CWISS_find_first_non_full.      *)
(*                                                                         *)
(* Two specifications:                                                     *)
(*   SpecSeq  a probe sequence on its own: CWISS_probe_seq_new, then any   *)
(*            number of CWISS_probe_seq_next / CWISS_probe_seq_offset.     *)
(*   Spec     one call of CWISS_find_first_non_full, one loop iteration    *)
(*            per step, over a control-byte array supplied by the caller.  *)
(***************************************************************************)
EXTENDS Integers, Sequences, FiniteSets

VARIABLES
    capacity,   \* the table's capacity, also the mask of the sequence
    seed,       \* CWISS_H1(hash, ctrl): the initial value of the sequence
    ctrl,       \* the control bytes, capacity + GroupWidth of them (<<>>: none)
    ndebug,     \* TRUE in a release build (NDEBUG defined)
    seq,        \* the CWISS_probe_seq
    pc,         \* "seq" | "loop" | "done" | "abort"
    coin,       \* CWISS_ShouldInsertBackwards(hash, ctrl): "unread" | "fwd" | "bwd"
    result,     \* the CWISS_FindInfo returned, or NoInfo
    slot,       \* the last value CWISS_probe_seq_offset returned, or -1
    visited     \* history: the offsets the sequence has produced, in order

vars == <<capacity, seed, ctrl, ndebug, seq, pc, coin, result, slot, visited>>

----------------------------------------------------------------------------
(* Bounds of the model. *)

\* capacities are 2^k - 1 for k in 1..MaxK in Spec
MaxK == 3
\* masks are 2^k - 1 for k in 1..MaxSeqK in SpecSeq
MaxSeqK == 5
\* at most this many bytes of the head of a control array are not Full
MaxHoles == 2
\* advances SpecSeq makes beyond one full cycle
ExtraAdvances == 1
\* arguments of CWISS_probe_seq_offset are drawn from 0..MaxArg
MaxArg == 5
\* groups a release build scans past the capacity of a full table
MaxSpin == 1

----------------------------------------------------------------------------
(* Collaborators of probe.h. *)

\* CWISS_Group_kWidth, a power of two (8 or 16 in a build; scaled down here)
GroupWidth == 4

Empty == "Empty"
Deleted == "Deleted"
Full == "Full"

RECURSIVE Pow2(_)
Pow2(k) == IF k = 0 THEN 1 ELSE 2 * Pow2(k - 1)

\* x & y on non-negative integers
RECURSIVE BitAnd(_, _)
BitAnd(x, y) ==
    IF x = 0 \/ y = 0 THEN 0
    ELSE (x % 2) * (y % 2) + 2 * BitAnd(x \div 2, y \div 2)

SetMin(S) == CHOOSE x \in S : \A y \in S : x <= y
SetMax(S) == CHOOSE x \in S : \A y \in S : x >= y

\* CWISS_is_small: the table fits into one group
CWISS_is_small(cap) == cap < GroupWidth - 1

\* CWISS_Group_new: GroupWidth consecutive control bytes from pos on
CWISS_Group_new(c, pos) == [i \in 0..(GroupWidth - 1) |-> c[pos + i]]

\* CWISS_Group_MatchEmptyOrDeleted: the bit mask, as the set of its set bits
CWISS_Group_MatchEmptyOrDeleted(g) ==
    {i \in 0..(GroupWidth - 1) : g[i] \in {Empty, Deleted}}

CWISS_BitMask_TrailingZeros(mask) == SetMin(mask)
CWISS_BitMask_HighestBitSet(mask) == SetMax(mask)

----------------------------------------------------------------------------
(* Control-byte arrays.  A head gives the byte of every offset 0..cap.     *)

AllFullHead(cap) == [p \in 0..cap |-> Full]

\* the heads with at most h bytes that are not Full
RECURSIVE Heads(_, _)
Heads(cap, h) ==
    IF h = 0 THEN {AllFullHead(cap)}
    ELSE LET prev == Heads(cap, h - 1)
         IN  prev \cup {[a EXCEPT ![p] = b] :
                           a \in prev, p \in 0..cap, b \in {Empty, Deleted}}

\* The first GroupWidth - 1 bytes are mirrored at the tail of the array:
\* byte cap + 1 + j is a copy of byte j.
TailMirror(head, cap) ==
    [p \in 0..(cap + GroupWidth - 1) |->
        IF p <= cap THEN head[p] ELSE head[(p - (cap + 1)) % (cap + 1)]]

\* Bytes [cap, cap + GroupWidth - 1] mirror bytes [0, GroupWidth - 1]:
\* byte cap + j is a copy of byte j.
CapMirror(head, cap) ==
    [p \in 0..(cap + GroupWidth - 1) |->
        IF p < cap THEN head[p] ELSE head[(p - cap) % cap]]

IsTailMirror(c, cap) ==
    \A p \in (cap + 1)..(cap + GroupWidth - 1) : c[p] = c[(p - (cap + 1)) % (cap + 1)]

IsCapMirror(c, cap) ==
    \A p \in cap..(cap + GroupWidth - 1) : c[p] = c[(p - cap) % cap]

IsHole(b) == b \in {Empty, Deleted}
HasHole(c) == \E p \in DOMAIN c : IsHole(c[p])
AllFull(c) == \A p \in DOMAIN c : c[p] = Full

----------------------------------------------------------------------------
(* probe.h *)

NoInfo == [offset |-> -1, probe_length |-> -1]

CWISS_probe_seq_new(hash, mask) ==
    [mask_ |-> mask, offset_ |-> BitAnd(hash, mask), index_ |-> 0]

\* mutant: the slot is not wrapped around at mask + 1
CWISS_probe_seq_offset_NoWrap(self, i) == self.offset_ + i

CWISS_probe_seq_offset(self, i) == BitAnd(self.offset_ + i, self.mask_)

\* mutant: the offset is advanced before the index is
CWISS_probe_seq_next_StaleIndex(self) ==
    [self EXCEPT !.index_ = self.index_ + GroupWidth,
                 !.offset_ = BitAnd(self.offset_ + self.index_, self.mask_)]

\* mutant: the index grows by half a group
CWISS_probe_seq_next_HalfStep(self) ==
    LET index == self.index_ + (GroupWidth \div 2)
    IN  [self EXCEPT !.index_ = index,
                     !.offset_ = BitAnd(self.offset_ + index, self.mask_)]

\* mutant: the index counts groups, not slots
CWISS_probe_seq_next_CountGroups(self) ==
    [self EXCEPT !.index_ = self.index_ + 1,
                 !.offset_ = BitAnd(self.offset_ + (self.index_ + 1) * GroupWidth,
                                    self.mask_)]

\* mutant: the offset is not masked after the addition
CWISS_probe_seq_next_NoMask(self) ==
    LET index == self.index_ + GroupWidth
    IN  [self EXCEPT !.index_ = index, !.offset_ = self.offset_ + index]

CWISS_probe_seq_next(self) ==
    LET index == self.index_ + GroupWidth
    IN  [self EXCEPT !.index_ = index,
                     !.offset_ = BitAnd(self.offset_ + index, self.mask_)]

\* CWISS_probe, with h1 the value of CWISS_H1(hash, ctrl)
CWISS_probe(h1, cap) == CWISS_probe_seq_new(h1, cap)

\* the bit mask of the group at the sequence's offset (lines 109-110)
GroupMask(c, s) ==
    CWISS_Group_MatchEmptyOrDeleted(CWISS_Group_new(c, s.offset_))

\* mutant: small tables are not exempted
InsertBackwards_NoSmallCheck(nd, cap, c) == ~nd /\ c = "bwd"

\* does the debug build take the backward branch (lines 112-118)
InsertBackwards(nd, cap, c) == ~nd /\ ~CWISS_is_small(cap) /\ c = "bwd"

\* mutant: the two branches resolve the bit the other way round
FindResolve_Swapped(s, mask, backwards) ==
    IF backwards
    THEN [offset |-> CWISS_probe_seq_offset(s, CWISS_BitMask_TrailingZeros(mask)),
          probe_length |-> s.index_]
    ELSE [offset |-> CWISS_probe_seq_offset(s, CWISS_BitMask_HighestBitSet(mask)),
          probe_length |-> s.index_]

\* the CWISS_FindInfo of a group whose mask is not empty (lines 111-127)
FindResolve(s, mask, backwards) ==
    IF backwards
    THEN [offset |-> CWISS_probe_seq_offset(s, CWISS_BitMask_HighestBitSet(mask)),
          probe_length |-> s.index_]
    ELSE [offset |-> CWISS_probe_seq_offset(s, CWISS_BitMask_TrailingZeros(mask)),
          probe_length |-> s.index_]

\* mutant: the bound is one group too generous
DcheckFullTable_Late(nd, s, cap) == nd \/ s.index_ <= cap + GroupWidth

\* CWISS_DCHECK(seq.index_ <= capacity, "full table!"): a no-op under NDEBUG
DcheckFullTable(nd, s, cap) == nd \/ s.index_ <= cap

----------------------------------------------------------------------------
(* Spec: one call of CWISS_find_first_non_full. *)

Capacities == {Pow2(k) - 1 : k \in 1..MaxK}

\* The state at line 107.  The control array is the caller's: it is drawn
\* from both layouts its description gives, and a property that depends on
\* the layout names it (IsTailMirror, IsCapMirror).  Capacities below
\* GroupWidth - 1 are the small tables.
Init ==
    /\ capacity \in Capacities
    /\ \E head \in Heads(capacity, MaxHoles) :
          ctrl \in {TailMirror(head, capacity), CapMirror(head, capacity)}
    /\ seed \in 0..(Pow2(MaxK) - 1)
    /\ ndebug \in BOOLEAN
    /\ seq = CWISS_probe(seed, capacity)
    /\ pc = "loop"
    /\ coin = "unread"
    /\ result = NoInfo
    /\ slot = -1
    /\ visited = <<seq.offset_>>

\* lines 109-127: the group holds an Empty or Deleted byte; return its slot
FindMatch ==
    /\ pc = "loop"
    /\ GroupMask(ctrl, seq) # {}
    /\ coin' \in {"fwd", "bwd"}
    /\ result' = FindResolve(seq, GroupMask(ctrl, seq),
                             InsertBackwards(ndebug, capacity, coin'))
    /\ pc' = "done"
    /\ UNCHANGED <<capacity, seed, ctrl, ndebug, seq, slot, visited>>

\* lines 128-129: the group is Full; advance, then the bound check
FindNext ==
    /\ pc = "loop"
    /\ GroupMask(ctrl, seq) = {}
    /\ seq.index_ < capacity + 1 + MaxSpin * GroupWidth
    /\ seq' = CWISS_probe_seq_next(seq)
    /\ visited' = Append(visited, seq'.offset_)
    /\ pc' = IF DcheckFullTable(ndebug, seq', capacity) THEN "loop" ELSE "abort"
    /\ UNCHANGED <<capacity, seed, ctrl, ndebug, coin, result, slot>>

Next == FindMatch \/ FindNext

Spec == Init /\ [][Next]_vars

----------------------------------------------------------------------------
(* SpecSeq: a probe sequence on its own. *)

Masks == {Pow2(k) - 1 : k \in 1..MaxSeqK}

CycleLen(mask) == (mask + 1) \div GroupWidth

InitSeq ==
    /\ capacity \in Masks
    /\ seed \in 0..(Pow2(MaxSeqK + 1) - 1)
    /\ ctrl = <<>>
    /\ ndebug = FALSE
    /\ seq = CWISS_probe_seq_new(seed, capacity)
    /\ pc = "seq"
    /\ coin = "unread"
    /\ result = NoInfo
    /\ slot = -1
    /\ visited = <<seq.offset_>>

SeqNext ==
    /\ pc = "seq"
    /\ Len(visited) <= CycleLen(capacity) + ExtraAdvances
    /\ seq' = CWISS_probe_seq_next(seq)
    /\ visited' = Append(visited, seq'.offset_)
    /\ slot' = -1
    /\ UNCHANGED <<capacity, seed, ctrl, ndebug, pc, coin, result>>

SeqOffset ==
    /\ pc = "seq"
    /\ \E i \in 0..MaxArg : slot' = CWISS_probe_seq_offset(seq, i)
    /\ UNCHANGED <<capacity, seed, ctrl, ndebug, seq, pc, coin, result, visited>>

NextSeq == SeqNext \/ SeqOffset

SpecSeq == InitSeq /\ [][NextSeq]_vars

----------------------------------------------------------------------------
(* Properties of the probe sequence, checked under SpecSeq. *)

\* the slots of the group at offset off, wrapped around at mask + 1
GroupSlots(off, mask) == {(off + j) % (mask + 1) : j \in 0..(GroupWidth - 1)}

\* p(i) := kWidth/2 * (i^2 - i) + hash (mod mask + 1)
TriangularP(i, hash, mask) == ((GroupWidth \div 2) * (i * i - i) + hash) % (mask + 1)

\* the offsets of the first full cycle produced so far
CycleSoFar ==
    IF Len(visited) <= CycleLen(capacity) THEN 1..Len(visited)
    ELSE 1..CycleLen(capacity)

CycleComplete == capacity + 1 >= GroupWidth /\ Len(visited) >= CycleLen(capacity)

NoRepeatInCycle ==
    \A a, b \in CycleSoFar : a # b => visited[a] # visited[b]

\* C2 as stated: for every mask 2^k - 1 with mask + 1 >= GroupWidth and every
\* seed, the offsets of one full cycle do not repeat and are, once the cycle is
\* complete, exactly the group-aligned residues (the multiples of GroupWidth)
\* modulo mask + 1.
C2_AlignedPermutation ==
    pc = "seq" /\ capacity + 1 >= GroupWidth =>
        /\ NoRepeatInCycle
        /\ CycleComplete =>
              {visited[j] : j \in CycleSoFar} =
                 {k * GroupWidth : k \in 0..(CycleLen(capacity) - 1)}

\* C2 amended: for every mask 2^k - 1 with mask + 1 >= GroupWidth and every
\* seed, the offsets of one full cycle do not repeat and are, once the cycle is
\* complete, exactly the residues modulo mask + 1 congruent to the seed modulo
\* GroupWidth (the group-aligned residues only when the seed is aligned).
C2_SeedClassPermutation ==
    pc = "seq" /\ capacity + 1 >= GroupWidth =>
        /\ NoRepeatInCycle
        /\ CycleComplete =>
              {visited[j] : j \in CycleSoFar} =
                 {r \in 0..capacity : r % GroupWidth = seed % GroupWidth}

C2_Witness ==
    /\ pc = "seq"
    /\ CycleLen(capacity) >= 8
    /\ Len(visited) = CycleLen(capacity)
    /\ seed % GroupWidth # 0

\* C7: for any mask 2^k - 1 and any seed, the offset is in [0, mask] after
\* construction and after every advance, and every value CWISS_probe_seq_offset
\* returns is in [0, mask].
C7_OffsetInRange ==
    pc = "seq" =>
        /\ seq.offset_ \in 0..capacity
        /\ \A j \in 1..Len(visited) : visited[j] \in 0..capacity
        /\ slot # -1 => slot \in 0..capacity
        /\ \A i \in 0..MaxArg : CWISS_probe_seq_offset(seq, i) \in 0..capacity

\* a full cycle of advances in which both the advance and the slot wrapped
C7_Witness ==
    /\ pc = "seq"
    /\ capacity = 15
    /\ Len(visited) = CycleLen(capacity) + 1
    /\ \E j \in 1..(Len(visited) - 1) : visited[j + 1] < visited[j]
    /\ slot # -1 /\ slot < seq.offset_

\* C8: for any seed and any mask 2^k - 1 with mask + 1 >= GroupWidth, the
\* groups visited in one cycle are pairwise disjoint and, once the cycle is
\* complete, cover every slot of [0, mask].
C8_GroupsPartition ==
    pc = "seq" /\ capacity + 1 >= GroupWidth =>
        /\ \A a, b \in CycleSoFar :
              a # b => GroupSlots(visited[a], capacity)
                          \cap GroupSlots(visited[b], capacity) = {}
        /\ \A a \in CycleSoFar :
              Cardinality(GroupSlots(visited[a], capacity)) = GroupWidth
        /\ CycleComplete =>
              UNION {GroupSlots(visited[a], capacity) : a \in CycleSoFar}
                 = 0..capacity

\* a complete cycle of at least four groups from an unaligned seed
C8_Witness ==
    /\ pc = "seq"
    /\ CycleLen(capacity) >= 4
    /\ Len(visited) = CycleLen(capacity)
    /\ seed % GroupWidth = 3

\* C9: for every seed and mask 2^k - 1, the i-th offset the sequence produces
\* (the first being the one set at construction) is p(i).
C9_TriangularProgression ==
    pc = "seq" =>
        /\ seq.offset_ = TriangularP(Len(visited), seed, capacity)
        /\ \A i \in 1..Len(visited) : visited[i] = TriangularP(i, seed, capacity)

C9_Witness ==
    /\ pc = "seq"
    /\ Len(visited) >= 5
    /\ seed > capacity
    /\ capacity >= 31

----------------------------------------------------------------------------
(* Properties of CWISS_find_first_non_full, checked under Spec. *)

\* the positions of the Empty and Deleted bytes among the GroupWidth control
\* bytes read from offset off on
GroupHoles(off) == {i \in 0..(GroupWidth - 1) : IsHole(ctrl[off + i])}

\* the number of advances the sequence has made
Advances == Len(visited) - 1

\* the groups loaded before the current one were Full, and they were loaded
\* in probe order
ScannedInOrder ==
    /\ \A j \in 1..Len(visited) : visited[j] = TriangularP(j, seed, capacity)
    /\ \A j \in 1..Advances : GroupHoles(visited[j]) = {}

\* the offset of the group the search stopped at
MatchGroup == visited[Len(visited)]

Returned == pc = "done"

ReturnedHole ==
    /\ result.offset \in 0..capacity
    /\ IsHole(ctrl[result.offset])

\* C1 as stated: for every capacity 2^k - 1 with capacity + 1 >= GroupWidth,
\* every seed and every control array in which bytes [capacity, capacity +
\* GroupWidth - 1] mirror bytes [0, GroupWidth - 1], the offset returned is in
\* [0, capacity] and its control byte is Empty or Deleted.
C1_HoleUnderCapMirror ==
    Returned /\ capacity + 1 >= GroupWidth /\ IsCapMirror(ctrl, capacity)
        => ReturnedHole

\* C1 amended: for every capacity 2^k - 1 with capacity + 1 >= GroupWidth,
\* every seed and every control array whose last GroupWidth - 1 bytes
\* [capacity + 1, capacity + GroupWidth - 1] mirror bytes [0, GroupWidth - 2],
\* the offset returned is in [0, capacity] and its control byte is Empty or
\* Deleted, also when the match was found in the mirrored tail.
C1_HoleUnderTailMirror ==
    Returned /\ capacity + 1 >= GroupWidth /\ IsTailMirror(ctrl, capacity)
        => ReturnedHole

\* the match was found in the mirrored tail, after a group found Full
C1_Witness ==
    /\ Returned
    /\ capacity + 1 >= GroupWidth
    /\ IsTailMirror(ctrl, capacity) /\ ~IsCapMirror(ctrl, capacity)
    /\ Advances >= 1
    /\ result.offset < MatchGroup
    /\ ctrl[capacity] = Full

\* C3: if the control array holds an Empty or Deleted byte, the search makes
\* at most capacity / GroupWidth advances, the group reached by the last of
\* them is not Full (so the search returns there), and the bound check
\* seq.index_ <= capacity never fails.
C3_BoundedSearch ==
    HasHole(ctrl) =>
        /\ pc # "abort"
        /\ seq.index_ <= capacity
        /\ Advances <= capacity \div GroupWidth
        /\ (pc = "loop" /\ Advances = capacity \div GroupWidth)
              => GroupHoles(seq.offset_) # {}

\* the only Empty byte is found by the last group of the cycle
C3_Witness ==
    /\ Returned
    /\ capacity = 7
    /\ Advances = capacity \div GroupWidth
    /\ Cardinality({p \in 0..capacity : IsHole(ctrl[p])}) = 1

\* C4: in a checked build, over a control array that is entirely Full, the
\* search never returns, and the bound check has failed exactly when the
\* index has passed the capacity.
C4_FullTableAborts ==
    ~ndebug /\ AllFull(ctrl) =>
        /\ ~Returned /\ result = NoInfo
        /\ pc = "abort" <=> seq.index_ > capacity

C4_Witness ==
    /\ ~ndebug /\ AllFull(ctrl)
    /\ capacity = 7
    /\ pc = "abort"
    /\ seq.index_ = capacity + 1

\* C5: the probe length returned is a multiple of GroupWidth, and is
\* GroupWidth times the number of groups scanned and found Full before the
\* matching group.
C5_ProbeLength ==
    Returned =>
        /\ result.probe_length % GroupWidth = 0
        /\ result.probe_length = GroupWidth * Advances
        /\ \A j \in 1..Advances : GroupHoles(visited[j]) = {}
        /\ GroupHoles(MatchGroup) # {}

C5_Witness ==
    /\ Returned
    /\ Advances = 1
    /\ result.probe_length = GroupWidth

\* the exploration policy is a debug-build policy, off for small tables
PolicyOff == ndebug \/ coin = "fwd"

\* C6: with the exploration policy disabled, the offset returned is
\* (g + i) & mask, with g the offset of the first group in probe order that
\* holds an Empty or Deleted byte and i the lowest position of such a byte in
\* that group, whichever of the two it is.
C6_LowestBitOfFirstGroup ==
    Returned /\ PolicyOff =>
        /\ ScannedInOrder
        /\ GroupHoles(MatchGroup) # {}
        /\ result.offset = (MatchGroup + SetMin(GroupHoles(MatchGroup))) % (capacity + 1)

\* a Deleted byte ahead of an Empty byte in the second group probed
C6_Witness ==
    /\ Returned /\ PolicyOff
    /\ Advances = 1
    /\ \E i, j \in GroupHoles(MatchGroup) :
          /\ i < j
          /\ ctrl[MatchGroup + i] = Deleted
          /\ ctrl[MatchGroup + j] = Empty
          /\ result.offset = (MatchGroup + i) % (capacity + 1)

====
